---- MODULE Spec2Model ----
(***************************************************************************)
(* A model of ae/core/playwright_manager.py (class PlaywrightManager) and  *)
(* ae/core/skills/pause_flow.py (coroutine pause_flow).                    *)
(*                                                                         *)
(* The coroutines run on one asyncio event loop: a coroutine runs without  *)
(* interruption from one suspension point to the next.  `running` holds    *)
(* the task that owns the loop (0 when the loop is free); a task gives the *)
(* loop up only where the code awaits the browser library, the event or    *)
(* the timer, and a suspended task resumes only when the loop is free.     *)
(***************************************************************************)
EXTENDS Integers, Sequences, FiniteSets, TLC

\* ------------------------------------------------------------- bounds
MaxTasks == 2
MaxCalls == 3
MaxTabCalls == 2
MaxConstructs == 2
MaxPlaywrights == 2
MaxContexts == 2
MaxPages == 3
MaxResponses == 2
MaxDuration == 2

Tasks == 1..MaxTasks

\* ------------------------------------------------------------- inputs
BrowserTypes == {"chromium", "firefox"}
Responses == {"yes", "no"}
LaunchOutcomes == {"ok", "closed", "notfound", "other"}

VARIABLES
    \* class and instance attributes of PlaywrightManager
    _instance,              \* PlaywrightManager._instance: 0 is None, else the object's id
    initialized,            \* self.__initialized
    browser_type,           \* self.browser_type ("" before the first __init__)
    isheadless,             \* self.isheadless
    has_ui_manager,         \* whether self.ui_manager was assigned
    user_response_event,    \* [id, value]: which asyncio.Event object, and its flag
    user_response,          \* self.user_response: "<unset>" until first assigned
    _playwright,            \* PlaywrightManager._playwright: 0 is None
    _browser_context,       \* PlaywrightManager._browser_context: 0 is None
    async_initialize_done,  \* self.__async_initialize_done
    \* the browser library's side
    pwStarted,              \* number of Playwright instances ever started
    pwRunning,              \* the started instances not yet stopped
    ctxLaunched,            \* number of browser contexts ever launched
    ctxLive,                \* the launched contexts not yet closed
    pages,                  \* context id -> its open pages, in the context's order
    pagesCreated,           \* number of pages ever opened
    \* the event loop
    running,                \* the task that owns the loop, 0 when it is free
    pc,                     \* task -> the label it is at
    stack,                  \* task -> the return labels of its pending calls
    loc,                    \* task -> the locals and the outcome of its call
    \* history
    hist                    \* counters and records the properties read

vars == <<_instance, initialized, browser_type, isheadless, has_ui_manager,
          user_response_event, user_response, _playwright, _browser_context,
          async_initialize_done, pwStarted, pwRunning, ctxLaunched, ctxLive,
          pages, pagesCreated, running, pc, stack, loc, hist>>

mgrVars == <<_instance, initialized, browser_type, isheadless, has_ui_manager>>
evtVars == <<user_response_event, user_response>>
pwVars == <<_playwright, pwStarted, pwRunning>>
ctxVars == <<_browser_context, ctxLaunched, ctxLive>>
pageVars == <<pages, pagesCreated>>

Unset == "<unset>"

\* a duration handed to pause_flow: a number, a string, None, or an integer beyond
\* the range of a float (val is then its sign)
Num(n) == [tag |-> "num", val |-> n, text |-> ""]
Str(x) == [tag |-> "str", val |-> 0, text |-> x]
NoDuration == [tag |-> "none", val |-> 0, text |-> ""]
BigInt(sign) == [tag |-> "bigint", val |-> sign, text |-> ""]
Durations ==
    {Num(n) : n \in (0 - MaxDuration)..MaxDuration}
        \cup {Str(x) : x \in {"2", "-1", "abc", "negative"}}
        \cup {NoDuration, BigInt(1), BigInt(0 - 1)}

\* What one create_browser_context call has done so far: the outcome of its first
\* launch, the launch statements it has executed, the directory mkdtemp gave it
\* (0 when it was not called), the directories handed to the library (UserDir is
\* the configured one) and how the call ended.
UserDir == 0
NoCbc == [first |-> "", tries |-> 0, tmp |-> 0, dirs |-> <<>>, end |-> ""]

NoLoc == [op |-> "", status |-> "none", exc |-> "", ret |-> 0, str |-> "",
          ctx |-> 0, pw |-> 0, page |-> 0, keep |-> 0, keepFirst |-> FALSE,
          snap |-> <<>>, todo |-> <<>>, closed |-> {},
          launches |-> 0, closes |-> 0, stops |-> 0, starts |-> 0,
          dur |-> NoDuration, seconds |-> 0, slept |-> FALSE, sleptFor |-> 0,
          shownAt |-> -1, doneAt |-> -1, respId |-> 0, c0 |-> 0, p0 |-> 0,
          cbc |-> NoCbc]

NoHist == [calls |-> 0, constructs |-> 0, lastInstance |-> 0, instances |-> 0,
           lastConfig |-> <<"", FALSE, FALSE>>,
           events |-> 0, responses |-> 0, delivered |-> {}, mailId |-> 0,
           returnedIds |-> {}, dupReturn |-> FALSE,
           startOK |-> FALSE, tmpdirs |-> 0, lastResponse |-> Unset]

\* The class before any PlaywrightManager(...) call.
InitClass ==
    /\ _instance = 0
    /\ initialized = FALSE
    /\ browser_type = ""
    /\ isheadless = FALSE
    /\ has_ui_manager = FALSE
    /\ user_response_event = [id |-> 0, value |-> FALSE]
    /\ user_response = Unset
    /\ _playwright = 0
    /\ _browser_context = 0
    /\ async_initialize_done = FALSE
    /\ pwStarted = 0
    /\ pwRunning = {}
    /\ ctxLaunched = 0
    /\ ctxLive = {}
    /\ pages = [c \in 1..(MaxContexts + 1) |-> <<>>]
    /\ pagesCreated = 0
    /\ running = 0
    /\ pc = [t \in Tasks |-> "idle"]
    /\ stack = [t \in Tasks |-> <<>>]
    /\ loc = [t \in Tasks |-> NoLoc]
    /\ hist = NoHist

\* ------------------------------------------------------ control helpers
\* Continue at label l without giving up the loop.
Goto(t, l) ==
    /\ pc' = [pc EXCEPT ![t] = l]
    /\ running' = t
    /\ UNCHANGED stack

\* Await a coroutine of the manager: enter it, remembering where to come back.
CallSub(t, entry, back) ==
    /\ pc' = [pc EXCEPT ![t] = entry]
    /\ stack' = [stack EXCEPT ![t] = <<back>> \o @]
    /\ running' = t

\* Await the library: the task is suspended at l and the loop is free.
Suspend(t, l) ==
    /\ pc' = [pc EXCEPT ![t] = l]
    /\ running' = 0
    /\ UNCHANGED stack

\* Return from the current coroutine to its caller, or finish the task.
Return(t) ==
    IF stack[t] = <<>>
    THEN /\ pc' = [pc EXCEPT ![t] = "idle"]
         /\ running' = 0
         /\ UNCHANGED stack
    ELSE /\ pc' = [pc EXCEPT ![t] = Head(stack[t])]
         /\ stack' = [stack EXCEPT ![t] = Tail(@)]
         /\ running' = t

Finishes(t) == stack[t] = <<>>

\* The frames whose call was made inside a try block with `except Exception`.
TryFrames == {"gcp_try"}
Handler(frame) == "gcp_except"

RECURSIVE Unwind(_)
Unwind(s) ==
    IF s = <<>> THEN [pc |-> "idle", stack |-> <<>>]
    ELSE IF Head(s) \in TryFrames THEN [pc |-> Handler(Head(s)), stack |-> Tail(s)]
    ELSE Unwind(Tail(s))

\* Raise an exception in task t: unwind to the nearest handler, or fail the task.
Raise(t) ==
    LET u == Unwind(stack[t]) IN
    /\ pc' = [pc EXCEPT ![t] = u.pc]
    /\ stack' = [stack EXCEPT ![t] = u.stack]
    /\ running' = IF u.pc = "idle" THEN 0 ELSE t

Propagates(t) == Unwind(stack[t]).pc = "idle"

\* loc after a step that may end the task: `done` says whether the step returns
\* (TRUE) or raises (FALSE) and l is loc[t] with the step's own updates.
\* The locals die with the call; what the call did and gave back stays to be read.
Outcome(l) == [l EXCEPT !.ctx = 0, !.pw = 0, !.page = 0, !.todo = <<>>]
Returned(t, l) ==
    IF Finishes(t) THEN Outcome([l EXCEPT !.status = "returned", !.exc = ""]) ELSE l
Raised(t, l, e) ==
    IF Propagates(t) THEN Outcome([l EXCEPT !.status = "raised", !.exc = e, !.ret = 0])
    ELSE [l EXCEPT !.exc = e]

At(t, l) == running = t /\ pc[t] = l
Resumes(t, l) == running = 0 /\ pc[t] = l

\* ------------------------------------------------- __new__ and __init__
\* __new__ without the `if cls._instance is None` test
NewEveryTime(inst, created) ==
    [inst |-> created + 1, created |-> created + 1, fresh |-> TRUE]

\* PlaywrightManager.__new__: the instance the constructor call yields.
New(inst, created) ==
    IF inst = 0
    THEN [inst |-> created + 1, created |-> created + 1, fresh |-> TRUE]
    ELSE [inst |-> inst, created |-> created, fresh |-> FALSE]

\* PlaywrightManager(browser_type, headless, gui_input_mode): __new__, then __init__.
Construct(bt, headless, gui) ==
    /\ running = 0
    /\ hist.constructs < MaxConstructs
    /\ LET n == New(_instance, hist.instances)
           init == IF n.fresh THEN FALSE ELSE initialized
       IN /\ _instance' = n.inst
          /\ IF init
             THEN UNCHANGED <<initialized, browser_type, isheadless, has_ui_manager,
                              user_response_event>>
                  /\ hist' = [hist EXCEPT !.constructs = @ + 1, !.instances = n.created,
                                          !.lastInstance = n.inst,
                                          !.lastConfig = <<bt, headless, gui>>]
             ELSE /\ browser_type' = bt
                  /\ isheadless' = headless
                  /\ initialized' = TRUE
                  /\ user_response_event' = [id |-> hist.events + 1, value |-> FALSE]
                  /\ has_ui_manager' = gui
                  /\ hist' = [hist EXCEPT !.constructs = @ + 1, !.instances = n.created,
                                          !.lastInstance = n.inst, !.events = @ + 1,
                                          !.lastConfig = <<bt, headless, gui>>]
    /\ UNCHANGED <<user_response, pwVars, ctxVars, async_initialize_done, pageVars,
                   running, pc, stack, loc>>

\* ------------------------------------------------------ start_playwright
\* start_playwright without the `if not PlaywrightManager._playwright` test
start_playwright_check_always(t) ==
    /\ At(t, "sp_check")
    /\ Suspend(t, "sp_start")
    /\ UNCHANGED <<loc, hist>>
    /\ UNCHANGED <<mgrVars, evtVars, pwVars, ctxVars, async_initialize_done, pageVars>>

\* if not PlaywrightManager._playwright: ... = await playwright().start()
start_playwright_check(t) ==
    /\ At(t, "sp_check")
    /\ IF _playwright = 0
       THEN /\ Suspend(t, "sp_start")
            /\ UNCHANGED <<loc, hist>>
       ELSE /\ Return(t)
            /\ loc' = [loc EXCEPT ![t] = Returned(t, @)]
            /\ hist' = [hist EXCEPT !.startOK = TRUE]
    /\ UNCHANGED <<mgrVars, evtVars, pwVars, ctxVars, async_initialize_done, pageVars>>

\* playwright().start() completes: a new Playwright instance runs and is stored.
start_playwright_resume(t) ==
    /\ Resumes(t, "sp_start")
    /\ pwStarted < MaxPlaywrights
    /\ pwStarted' = pwStarted + 1
    /\ pwRunning' = pwRunning \cup {pwStarted + 1}
    /\ _playwright' = pwStarted + 1
    /\ Return(t)
    /\ loc' = [loc EXCEPT ![t] = Returned(t, [@ EXCEPT !.starts = @ + 1])]
    /\ hist' = [hist EXCEPT !.startOK = TRUE]
    /\ UNCHANGED <<mgrVars, evtVars, ctxVars, async_initialize_done, pageVars>>

start_playwright(t) == start_playwright_check(t) \/ start_playwright_resume(t)

\* ------------------------------------------------------- stop_playwright
\* if PlaywrightManager._browser_context is not None: await ....close()
stop_playwright_check_context(t) ==
    /\ At(t, "st_check_ctx")
    /\ IF _browser_context # 0
       THEN /\ Suspend(t, "st_close")
            /\ loc' = [loc EXCEPT ![t].ctx = _browser_context,
                                  ![t].c0 = _browser_context, ![t].p0 = _playwright]
       ELSE /\ Goto(t, "st_check_pw")
            /\ loc' = [loc EXCEPT ![t].c0 = _browser_context, ![t].p0 = _playwright]
    /\ hist' = [hist EXCEPT !.startOK = FALSE]
    /\ UNCHANGED <<mgrVars, evtVars, pwVars, ctxVars, async_initialize_done, pageVars>>

\* stop_playwright without `PlaywrightManager._browser_context = None`
stop_playwright_closed_kept(t) ==
    /\ Resumes(t, "st_close")
    /\ ctxLive' = ctxLive \ {loc[t].ctx}
    /\ pages' = [pages EXCEPT ![loc[t].ctx] = <<>>]
    /\ Goto(t, "st_check_pw")
    /\ loc' = [loc EXCEPT ![t].closes = @ + 1]
    /\ hist' = [hist EXCEPT !.startOK = FALSE]
    /\ UNCHANGED <<mgrVars, evtVars, pwVars, _browser_context, ctxLaunched,
                   async_initialize_done, pagesCreated>>

\* the context's close() completes; PlaywrightManager._browser_context = None
stop_playwright_closed(t) ==
    /\ Resumes(t, "st_close")
    /\ ctxLive' = ctxLive \ {loc[t].ctx}
    /\ pages' = [pages EXCEPT ![loc[t].ctx] = <<>>]
    /\ _browser_context' = 0
    /\ Goto(t, "st_check_pw")
    /\ loc' = [loc EXCEPT ![t].closes = @ + 1]
    /\ hist' = [hist EXCEPT !.startOK = FALSE]
    /\ UNCHANGED <<mgrVars, evtVars, pwVars, ctxLaunched, async_initialize_done, pagesCreated>>

\* if PlaywrightManager._playwright is not None: await ....stop()
stop_playwright_check_playwright(t) ==
    /\ At(t, "st_check_pw")
    /\ IF _playwright # 0
       THEN /\ Suspend(t, "st_stop")
            /\ loc' = [loc EXCEPT ![t].pw = _playwright]
       ELSE /\ Return(t)
            /\ loc' = [loc EXCEPT ![t] = Returned(t, @)]
    /\ hist' = [hist EXCEPT !.startOK = FALSE]
    /\ UNCHANGED <<mgrVars, evtVars, pwVars, ctxVars, async_initialize_done, pageVars>>

\* the instance's stop() completes; PlaywrightManager._playwright = None
stop_playwright_stopped(t) ==
    /\ Resumes(t, "st_stop")
    /\ pwRunning' = pwRunning \ {loc[t].pw}
    /\ _playwright' = 0
    /\ Return(t)
    /\ loc' = [loc EXCEPT ![t] = Returned(t, [@ EXCEPT !.stops = @ + 1])]
    /\ hist' = [hist EXCEPT !.startOK = FALSE]
    /\ UNCHANGED <<mgrVars, evtVars, pwStarted, ctxVars, async_initialize_done, pageVars>>

stop_playwright(t) ==
    \/ stop_playwright_check_context(t)
    \/ stop_playwright_closed(t)
    \/ stop_playwright_check_playwright(t)
    \/ stop_playwright_stopped(t)

\* ------------------------------------------------ create_browser_context
\* A persistent context is launched on Playwright instance p: it opens with one page.
Launched(t, p) ==
    /\ p \in pwRunning
    /\ ctxLaunched < MaxContexts
    /\ pagesCreated < MaxPages
    /\ ctxLaunched' = ctxLaunched + 1
    /\ ctxLive' = ctxLive \cup {ctxLaunched + 1}
    /\ pagesCreated' = pagesCreated + 1
    /\ pages' = [pages EXCEPT ![ctxLaunched + 1] = <<pagesCreated + 1>>]
    /\ _browser_context' = ctxLaunched + 1

\* if self.browser_type == "chromium": try: ... launch_persistent_context(user_dir, ...)
\* With _playwright None the launch statement raises AttributeError inside the try:
\* the except clause matches neither message and re-raises it.
create_browser_context_entry(t) ==
    /\ At(t, "cbc_entry")
    /\ IF browser_type = "chromium"
       THEN IF _playwright = 0
            THEN /\ Raise(t)
                 /\ loc' = [loc EXCEPT ![t] = Raised(t,
                               [@ EXCEPT !.cbc = [NoCbc EXCEPT !.first = "noplaywright",
                                                               !.tries = 1,
                                                               !.end = "AttributeError"]],
                               "AttributeError")]
            ELSE /\ Suspend(t, "cbc_launch1")
                 /\ loc' = [loc EXCEPT ![t].pw = _playwright, ![t].launches = @ + 1,
                                       ![t].cbc = [NoCbc EXCEPT !.tries = 1,
                                                                !.dirs = <<UserDir>>]]
       ELSE /\ Raise(t)
            /\ loc' = [loc EXCEPT ![t] = Raised(t, [@ EXCEPT !.cbc = [NoCbc EXCEPT !.end = "ValueError"]],
                                                "ValueError")]
    /\ UNCHANGED <<mgrVars, evtVars, pwVars, ctxVars, async_initialize_done, pageVars, hist>>

\* if "Target page, context or browser has been closed" in str(e)
TargetClosedOrOther(outcome) == outcome \in {"closed", "other"}

TargetClosed(outcome) == outcome = "closed"

\* elif "Chromium distribution 'chrome' is not found " in str(e)
ChromeNotFound(outcome) == outcome = "notfound"

\* the first launch completes, or fails and the except clause looks at the message
create_browser_context_first(t) ==
    /\ Resumes(t, "cbc_launch1")
    /\ \E outcome \in LaunchOutcomes :
         \/ /\ outcome = "ok"
            /\ Launched(t, loc[t].pw)
            /\ Return(t)
            /\ loc' = [loc EXCEPT ![t] = Returned(t, [@ EXCEPT !.cbc.first = outcome,
                                                                !.cbc.end = "returned"])]
            /\ UNCHANGED hist
         \/ /\ outcome # "ok"
            /\ TargetClosed(outcome)
            \* new_user_dir = tempfile.mkdtemp(), then the second launch statement
            /\ hist' = [hist EXCEPT !.tmpdirs = @ + 1]
            /\ IF _playwright = 0
               THEN /\ Raise(t)
                    /\ loc' = [loc EXCEPT ![t] = Raised(t,
                                  [@ EXCEPT !.cbc.first = outcome, !.cbc.tries = 2,
                                            !.cbc.tmp = hist.tmpdirs + 1,
                                            !.cbc.end = "AttributeError"],
                                  "AttributeError")]
               ELSE /\ Suspend(t, "cbc_launch2")
                    /\ loc' = [loc EXCEPT ![t].pw = _playwright, ![t].launches = @ + 1,
                                          ![t].cbc.first = outcome, ![t].cbc.tries = 2,
                                          ![t].cbc.tmp = hist.tmpdirs + 1,
                                          ![t].cbc.dirs = Append(@, hist.tmpdirs + 1)]
            /\ UNCHANGED <<ctxVars, pageVars>>
         \/ /\ outcome # "ok"
            /\ ~TargetClosed(outcome)
            /\ ChromeNotFound(outcome)
            /\ Raise(t)
            /\ loc' = [loc EXCEPT ![t] = Raised(t, [@ EXCEPT !.cbc.first = outcome,
                                                              !.cbc.end = "ValueError"],
                                                "ValueError")]
            /\ UNCHANGED <<ctxVars, pageVars, hist>>
         \/ /\ outcome # "ok"
            /\ ~TargetClosed(outcome)
            /\ ~ChromeNotFound(outcome)
            /\ Raise(t)
            /\ loc' = [loc EXCEPT ![t] = Raised(t, [@ EXCEPT !.cbc.first = outcome,
                                                              !.cbc.end = "LaunchError"],
                                                "LaunchError")]
            /\ UNCHANGED <<ctxVars, pageVars, hist>>
    /\ UNCHANGED <<mgrVars, evtVars, pwVars, async_initialize_done>>

\* the launch with the fresh temporary directory completes or fails
create_browser_context_second(t) ==
    /\ Resumes(t, "cbc_launch2")
    /\ \/ /\ Launched(t, loc[t].pw)
          /\ Return(t)
          /\ loc' = [loc EXCEPT ![t] = Returned(t, [@ EXCEPT !.cbc.end = "returned"])]
       \/ /\ Raise(t)
          /\ loc' = [loc EXCEPT ![t] = Raised(t, [@ EXCEPT !.cbc.end = "LaunchError"],
                                              "LaunchError")]
          /\ UNCHANGED <<ctxVars, pageVars>>
    /\ UNCHANGED <<mgrVars, evtVars, pwVars, async_initialize_done, hist>>

create_browser_context(t) ==
    \/ create_browser_context_entry(t)
    \/ create_browser_context_first(t)
    \/ create_browser_context_second(t)

\* ------------------------------------------------ ensure_browser_context
\* if self._browser_context is None: await self.create_browser_context()
ensure_browser_context(t) ==
    /\ At(t, "ebc_check")
    /\ IF _browser_context = 0
       THEN /\ Goto(t, "cbc_entry")
            /\ UNCHANGED loc
       ELSE /\ Return(t)
            /\ loc' = [loc EXCEPT ![t] = Returned(t, @)]
    /\ UNCHANGED <<mgrVars, evtVars, pwVars, ctxVars, async_initialize_done, pageVars, hist>>

\* --------------------------------------------------- get_browser_context
\* await self.ensure_browser_context(); return self._browser_context
get_browser_context(t) ==
    /\ \/ /\ At(t, "gbc_entry")
          /\ CallSub(t, "ebc_check", "gbc_ret")
          /\ UNCHANGED loc
       \/ /\ At(t, "gbc_ret")
          /\ Return(t)
          /\ loc' = [loc EXCEPT ![t] = Returned(t, [@ EXCEPT !.ret = _browser_context,
                                                              !.cbc = NoCbc])]
    /\ UNCHANGED <<mgrVars, evtVars, pwVars, ctxVars, async_initialize_done, pageVars, hist>>

\* ------------------------------------------------------ get_current_page
First(s) == s[1]

\* pages[-1]
Last(s) == s[Len(s)]

\* try: browser = await self.get_browser_context()
get_current_page_entry(t) ==
    /\ At(t, "gcp_entry")
    /\ CallSub(t, "gbc_entry", "gcp_try")
    /\ UNCHANGED <<loc, mgrVars, evtVars, pwVars, ctxVars, async_initialize_done, pageVars, hist>>

\* pages = [the context's pages that are not closed]; return pages[-1], or open a page
get_current_page_pages(t) ==
    /\ At(t, "gcp_try")
    /\ LET browser == loc[t].ret
           open == pages[browser]
       IN IF open # <<>>
          THEN /\ Return(t)
               /\ loc' = [loc EXCEPT ![t] = Returned(t, [@ EXCEPT !.ret = Last(open)])]
          ELSE /\ Suspend(t, "gcp_new_page")
               /\ loc' = [loc EXCEPT ![t].ctx = browser]
    /\ UNCHANGED <<mgrVars, evtVars, pwVars, ctxVars, async_initialize_done, pageVars, hist>>

\* browser.new_page() completes, or raises because the context is closed
get_current_page_new_page(t) ==
    /\ Resumes(t, "gcp_new_page")
    /\ IF loc[t].ctx \in ctxLive
       THEN /\ pagesCreated < MaxPages
            /\ pagesCreated' = pagesCreated + 1
            /\ pages' = [pages EXCEPT ![loc[t].ctx] = Append(@, pagesCreated + 1)]
            /\ Return(t)
            /\ loc' = [loc EXCEPT ![t] = Returned(t, [@ EXCEPT !.ret = pagesCreated + 1])]
       ELSE /\ Goto(t, "gcp_except")
            /\ UNCHANGED <<loc, pageVars>>
    /\ UNCHANGED <<mgrVars, evtVars, pwVars, ctxVars, async_initialize_done, hist>>

\* except Exception: PlaywrightManager._browser_context = None; get_browser_context();
\* return await self.get_current_page()
get_current_page_except(t) ==
    /\ \/ /\ At(t, "gcp_except")
          /\ _browser_context' = 0
          /\ CallSub(t, "gbc_entry", "gcp_retry")
          /\ loc' = [loc EXCEPT ![t].cbc = NoCbc]
       \/ /\ At(t, "gcp_retry")
          /\ CallSub(t, "gcp_entry", "gcp_return")
          /\ UNCHANGED <<loc, _browser_context>>
       \/ /\ At(t, "gcp_return")
          /\ Return(t)
          /\ loc' = [loc EXCEPT ![t] = Returned(t, @)]
          /\ UNCHANGED _browser_context
    /\ UNCHANGED <<mgrVars, evtVars, pwVars, ctxLaunched, ctxLive, async_initialize_done,
                   pageVars, hist>>

get_current_page(t) ==
    \/ get_current_page_entry(t)
    \/ get_current_page_pages(t)
    \/ get_current_page_new_page(t)
    \/ get_current_page_except(t)

\* ---------------------------------------------------------- the browser
\* The user opens a tab in the browser window.
NewTab(c) ==
    /\ running = 0
    /\ c \in ctxLive
    /\ pagesCreated < MaxPages
    /\ pagesCreated' = pagesCreated + 1
    /\ pages' = [pages EXCEPT ![c] = Append(@, pagesCreated + 1)]
    /\ UNCHANGED <<mgrVars, evtVars, pwVars, ctxVars, async_initialize_done,
                   running, pc, stack, loc, hist>>

\* The user closes the browser window: the context and its pages are closed.
BrowserClosed(c) ==
    /\ running = 0
    /\ c \in ctxLive
    /\ ctxLive' = ctxLive \ {c}
    /\ pages' = [pages EXCEPT ![c] = <<>>]
    /\ UNCHANGED <<mgrVars, evtVars, pwVars, _browser_context, ctxLaunched,
                   async_initialize_done, pagesCreated, running, pc, stack, loc, hist>>

\* ----------------------------------------------------------------- tabs
Rest(s) == IF s = <<>> THEN <<>> ELSE Tail(s)
Range(s) == {s[i] : i \in DOMAIN s}
IsOpen(p) == \E c \in DOMAIN pages : p \in Range(pages[c])

\* page.close(): the page leaves its context's pages; closing a closed page does nothing.
Closed(p) == [c \in DOMAIN pages |-> SelectSeq(pages[c], LAMBDA q : q # p)]

\* pages_to_close = pages, whatever keep_first_tab is
PagesToCloseAll(ps, keep_first_tab) == ps

\* pages_to_close = pages[1:] if keep_first_tab else pages
PagesToClose(ps, keep_first_tab) == IF keep_first_tab THEN Rest(ps) ELSE ps

\* every page but the first, whatever page_to_keep is
PagesExceptFirst(ps, page_to_keep) == Rest(ps)

\* the pages for which `page != page_to_keep` holds, in the context's order
PagesExcept(ps, page_to_keep) == SelectSeq(ps, LAMBDA q : q # page_to_keep)

\* for page in ...: await page.close()  -- one close completes
CloseNext(t, label) ==
    /\ Resumes(t, label)
    /\ pages' = Closed(Head(loc[t].todo))
    /\ LET l == [loc[t] EXCEPT !.todo = Tail(@), !.closed = @ \cup {Head(loc[t].todo)}]
       IN IF l.todo = <<>>
          THEN /\ Return(t)
               /\ loc' = [loc EXCEPT ![t] = Returned(t, l)]
          ELSE /\ Suspend(t, label)
               /\ loc' = [loc EXCEPT ![t] = l]
    /\ UNCHANGED <<mgrVars, evtVars, pwVars, ctxVars, async_initialize_done, pagesCreated, hist>>

\* the loop over `todo` starts: nothing to close, or the first close is awaited
CloseAll(t, snap, todo, label) ==
    LET l == [loc[t] EXCEPT !.snap = snap, !.todo = todo] IN
    IF todo = <<>>
    THEN /\ Return(t)
         /\ loc' = [loc EXCEPT ![t] = Returned(t, l)]
    ELSE /\ Suspend(t, label)
         /\ loc' = [loc EXCEPT ![t] = l]

close_all_tabs(t) ==
    \/ /\ At(t, "cat_entry")
       /\ CallSub(t, "gbc_entry", "cat_pages")
       /\ UNCHANGED <<loc, mgrVars, evtVars, pwVars, ctxVars, async_initialize_done,
                      pageVars, hist>>
    \/ /\ At(t, "cat_pages")
       /\ CloseAll(t, pages[loc[t].ret], PagesToClose(pages[loc[t].ret], loc[t].keepFirst),
                   "cat_close")
       /\ UNCHANGED <<mgrVars, evtVars, pwVars, ctxVars, async_initialize_done,
                      pageVars, hist>>
    \/ CloseNext(t, "cat_close")

close_except_specified_tab(t) ==
    \/ /\ At(t, "cex_entry")
       /\ CallSub(t, "gbc_entry", "cex_pages")
       /\ UNCHANGED <<loc, mgrVars, evtVars, pwVars, ctxVars, async_initialize_done,
                      pageVars, hist>>
    \/ /\ At(t, "cex_pages")
       /\ CloseAll(t, pages[loc[t].ret], PagesExcept(pages[loc[t].ret], loc[t].keep),
                   "cex_close")
       /\ UNCHANGED <<mgrVars, evtVars, pwVars, ctxVars, async_initialize_done,
                      pageVars, hist>>
    \/ CloseNext(t, "cex_close")

\* ------------------------------------------------------ async_initialize
\* An awaited library call on context c or page p completes, or raises when its
\* target is closed.
LibraryCall(t, alive, next) ==
    IF alive
    THEN /\ next
         /\ UNCHANGED loc
    ELSE /\ Raise(t)
         /\ loc' = [loc EXCEPT ![t] = Raised(t, @, "TargetClosedError")]

async_initialize(t) ==
    /\ \/ /\ At(t, "ai_entry")
          /\ IF async_initialize_done
             THEN /\ Return(t)
                  /\ loc' = [loc EXCEPT ![t] = Returned(t, @)]
             ELSE /\ CallSub(t, "sp_check", "ai_ensure")
                  /\ UNCHANGED loc
          /\ UNCHANGED async_initialize_done
       \/ /\ At(t, "ai_ensure")
          /\ CallSub(t, "ebc_check", "ai_overlay_handler")
          /\ UNCHANGED <<loc, async_initialize_done>>
       \* setup_handlers: set_overlay_state_handler
       \/ /\ At(t, "ai_overlay_handler")
          /\ CallSub(t, "gbc_entry", "ai_overlay_expose")
          /\ UNCHANGED <<loc, async_initialize_done>>
       \/ /\ At(t, "ai_overlay_expose")
          /\ Suspend(t, "ai_overlay_exposed")
          /\ loc' = [loc EXCEPT ![t].ctx = loc[t].ret]
          /\ UNCHANGED async_initialize_done
       \* setup_handlers: set_user_response_handler
       \/ /\ Resumes(t, "ai_overlay_exposed")
          /\ LibraryCall(t, loc[t].ctx \in ctxLive,
                         CallSub(t, "gbc_entry", "ai_response_expose"))
          /\ UNCHANGED async_initialize_done
       \/ /\ At(t, "ai_response_expose")
          /\ Suspend(t, "ai_response_exposed")
          /\ loc' = [loc EXCEPT ![t].ctx = loc[t].ret]
          /\ UNCHANGED async_initialize_done
       \* setup_handlers: set_navigation_handler
       \/ /\ Resumes(t, "ai_response_exposed")
          /\ LibraryCall(t, loc[t].ctx \in ctxLive,
                         CallSub(t, "gcp_entry", "ai_navigation"))
          /\ UNCHANGED async_initialize_done
       \* go_to_homepage
       \/ /\ At(t, "ai_navigation")
          /\ CallSub(t, "gcp_entry", "ai_goto")
          /\ UNCHANGED <<loc, async_initialize_done>>
       \/ /\ At(t, "ai_goto")
          /\ Suspend(t, "ai_homepage")
          /\ loc' = [loc EXCEPT ![t].page = loc[t].ret]
          /\ UNCHANGED async_initialize_done
       \/ /\ Resumes(t, "ai_homepage")
          /\ IF IsOpen(loc[t].page)
             THEN /\ async_initialize_done' = TRUE
                  /\ Return(t)
                  /\ loc' = [loc EXCEPT ![t] = Returned(t, @)]
             ELSE /\ Raise(t)
                  /\ loc' = [loc EXCEPT ![t] = Raised(t, @, "TargetClosedError")]
                  /\ UNCHANGED async_initialize_done
    /\ UNCHANGED <<mgrVars, evtVars, pwVars, ctxVars, pageVars, hist>>

\* ------------------------------------------------- receive_user_response
\* self.user_response = response; self.user_response_event.set()
\* Event.set(): if the flag is clear, set it and wake every coroutine waiting in wait().
receive_user_response(response) ==
    /\ running = 0
    /\ initialized
    /\ hist.responses < MaxResponses
    /\ user_response' = response
    /\ user_response_event' = [user_response_event EXCEPT !.value = TRUE]
    /\ pc' = IF user_response_event.value THEN pc
             ELSE [t \in Tasks |-> IF pc[t] = "pu_wait" THEN "pu_woken" ELSE pc[t]]
    /\ hist' = [hist EXCEPT !.responses = @ + 1, !.mailId = hist.responses + 1,
                            !.delivered = @ \cup {response}, !.lastResponse = response]
    /\ UNCHANGED <<mgrVars, pwVars, ctxVars, async_initialize_done, pageVars,
                   running, stack, loc>>

\* ----------------------------------------------------------- prompt_user
TakeResponseNoClear(t) ==
    IF user_response = Unset
    THEN /\ Raise(t)
         /\ loc' = [loc EXCEPT ![t] = Raised(t, @, "AttributeError")]
         /\ UNCHANGED <<evtVars, hist>>
    ELSE /\ user_response' = ""
         /\ Return(t)
         /\ loc' = [loc EXCEPT ![t] =
                      Returned(t, [@ EXCEPT !.str = user_response, !.respId = hist.mailId,
                                               !.doneAt = hist.responses])]
         /\ UNCHANGED <<user_response_event, hist>>

\* result = self.user_response; self.user_response_event.clear();
\* self.user_response = ""; self.ui_manager.new_user_message(result); return result
TakeResponse(t) ==
    IF user_response = Unset
    THEN /\ Raise(t)
         /\ loc' = [loc EXCEPT ![t] = Raised(t, @, "AttributeError")]
         /\ UNCHANGED <<evtVars, hist>>
    ELSE /\ user_response_event' = [user_response_event EXCEPT !.value = FALSE]
         /\ user_response' = ""
         /\ Return(t)
         /\ loc' = [loc EXCEPT ![t] =
                      Returned(t, [@ EXCEPT !.str = user_response, !.respId = hist.mailId,
                                               !.doneAt = hist.responses])]
         /\ hist' = [hist EXCEPT !.mailId = 0,
                                 !.returnedIds = @ \cup ({hist.mailId} \ {0}),
                                 !.dupReturn = @ \/ hist.mailId \in hist.returnedIds]

prompt_user(t) ==
    /\ \/ /\ At(t, "pu_entry")
          /\ CallSub(t, "gcp_entry", "pu_overlay")
          /\ UNCHANGED <<loc, evtVars, hist>>
       \* await self.ui_manager.show_overlay(page)
       \/ /\ At(t, "pu_overlay")
          /\ IF has_ui_manager
             THEN /\ Suspend(t, "pu_show_overlay")
                  /\ loc' = [loc EXCEPT ![t].page = loc[t].ret]
             ELSE /\ Raise(t)
                  /\ loc' = [loc EXCEPT ![t] = Raised(t, @, "AttributeError")]
          /\ UNCHANGED <<evtVars, hist>>
       \* self.log_system_message(message); await page.evaluate(js_code): from here
       \* on the message is in front of the user
       \/ /\ Resumes(t, "pu_show_overlay")
          /\ Suspend(t, "pu_evaluate")
          /\ loc' = [loc EXCEPT ![t].shownAt = hist.responses]
          /\ UNCHANGED <<evtVars, hist>>
       \* await self.user_response_event.wait(): at once when the flag is set
       \/ /\ Resumes(t, "pu_evaluate")
          /\ IF ~IsOpen(loc[t].page)
             THEN /\ Raise(t)
                  /\ loc' = [loc EXCEPT ![t] = Raised(t, @, "TargetClosedError")]
                  /\ UNCHANGED <<evtVars, hist>>
             ELSE IF user_response_event.value
             THEN TakeResponse(t)
             ELSE /\ Suspend(t, "pu_wait")
                  /\ UNCHANGED <<loc, evtVars, hist>>
       \* the waiter set() woke resumes, whatever the flag is by now
       \/ /\ Resumes(t, "pu_woken")
          /\ TakeResponse(t)
    /\ UNCHANGED <<mgrVars, pwVars, ctxVars, async_initialize_done, pageVars>>

\* ------------------------------------------------------------ pause_flow
NegativeMessage == "Duration cannot be negative."
InvalidMessage == "Invalid duration. Please provide a valid number of seconds."
ErrorMessage == "Error while pausing: "

\* float(duration): the value, or the exception it raises; the message of float's
\* ValueError quotes the string it could not convert
ParseFloat(text) ==
    CASE text = "2" -> [ok |-> TRUE, val |-> 2]
      [] text = "-1" -> [ok |-> TRUE, val |-> 0 - 1]
      [] OTHER -> [ok |-> FALSE, val |-> 0]
Float(d) ==
    CASE d.tag = "num" -> [err |-> "", val |-> d.val, msg |-> ""]
      [] d.tag = "str" ->
            IF ParseFloat(d.text).ok
            THEN [err |-> "", val |-> ParseFloat(d.text).val, msg |-> ""]
            ELSE [err |-> "ValueError", val |-> 0, msg |-> d.text]
      [] d.tag = "bigint" -> [err |-> "OverflowError", val |-> 0, msg |-> "int too large"]
      [] OTHER -> [err |-> "TypeError", val |-> 0, msg |-> "argument must be a number"]

\* "negative" in str(e)
HasNegative(msg) == msg \in {"negative", NegativeMessage}

\* the handler without its `if "negative" in str(e)` branch
PauseErrorInvalid(err, msg) ==
    IF err = "ValueError" THEN InvalidMessage ELSE ErrorMessage

\* except ValueError as e: ... / except Exception as e: ...
PauseError(err, msg) ==
    IF err = "ValueError"
    THEN IF HasNegative(msg) THEN NegativeMessage ELSE InvalidMessage
    ELSE ErrorMessage

\* f"Paused for {seconds} second(s)."
PauseMessage(seconds) ==
    "Paused for " \o ToString(seconds) \o (IF seconds = 1 THEN ".0 second." ELSE ".0 seconds.")

pause_flow(t) ==
    /\ \/ /\ At(t, "pf_entry")
          /\ LET f == Float(loc[t].dur) IN
             IF f.err # ""
             THEN /\ Raise(t)
                  /\ loc' = [loc EXCEPT ![t] =
                               Raised(t, [@ EXCEPT !.str = PauseError(f.err, f.msg)], "ValueError")]
             ELSE IF f.val < 0
             THEN /\ Raise(t)
                  /\ loc' = [loc EXCEPT ![t] =
                               Raised(t, [@ EXCEPT !.seconds = f.val,
                                                   !.str = PauseError("ValueError", NegativeMessage)],
                                      "ValueError")]
             ELSE /\ Suspend(t, "pf_sleep")
                  /\ loc' = [loc EXCEPT ![t].seconds = f.val]
       \* asyncio.sleep(seconds) completes
       \/ /\ Resumes(t, "pf_sleep")
          /\ Return(t)
          /\ loc' = [loc EXCEPT ![t] =
                       Returned(t, [@ EXCEPT !.slept = TRUE, !.sleptFor = loc[t].seconds,
                                             !.str = PauseMessage(loc[t].seconds)])]
    /\ UNCHANGED <<mgrVars, evtVars, pwVars, ctxVars, async_initialize_done, pageVars, hist>>

\* ---------------------------------------------------------------- calls
Entry(op) ==
    CASE op = "async_initialize" -> "ai_entry"
      [] op = "start_playwright" -> "sp_check"
      [] op = "stop_playwright" -> "st_check_ctx"
      [] op = "ensure_browser_context" -> "ebc_check"
      [] op = "get_browser_context" -> "gbc_entry"
      [] op = "get_current_page" -> "gcp_entry"
      [] op = "close_all_tabs" -> "cat_entry"
      [] op = "close_except_specified_tab" -> "cex_entry"
      [] op = "prompt_user" -> "pu_entry"
      [] op = "pause_flow" -> "pf_entry"

\* A task starts running the coroutine `op` with the locals in l.
\* Tasks are interchangeable: a call is given to the lowest idle one.
Start(t, op, l) ==
    /\ running = 0
    /\ pc[t] = "idle"
    /\ \A u \in Tasks : u < t => pc[u] # "idle"
    /\ hist.calls < MaxCalls
    /\ pc' = [pc EXCEPT ![t] = Entry(op)]
    /\ stack' = [stack EXCEPT ![t] = <<>>]
    /\ running' = t
    /\ loc' = [loc EXCEPT ![t] = [l EXCEPT !.op = op]]
    /\ hist' = [hist EXCEPT !.calls = @ + 1]
    /\ UNCHANGED <<mgrVars, evtVars, pwVars, ctxVars, async_initialize_done, pageVars>>

LifecycleOps == {"async_initialize", "start_playwright", "stop_playwright",
                 "ensure_browser_context", "get_browser_context", "get_current_page"}

\* the constructor calls made: (browser_type, headless, gui_input_mode)
Configs == {<<"chromium", FALSE, TRUE>>, <<"chromium", TRUE, FALSE>>,
            <<"firefox", TRUE, TRUE>>}

CallLifecycle(t) ==
    /\ initialized
    /\ \E op \in LifecycleOps : Start(t, op, NoLoc)

CallTabs(t) ==
    /\ initialized
    /\ hist.calls < MaxTabCalls
    /\ \/ \E k \in BOOLEAN : Start(t, "close_all_tabs", [NoLoc EXCEPT !.keepFirst = k])
       \/ \E p \in 1..pagesCreated :
             Start(t, "close_except_specified_tab", [NoLoc EXCEPT !.keep = p])
       \/ Start(t, "get_current_page", NoLoc)

StartStopOps == {"start_playwright", "stop_playwright", "ensure_browser_context"}

CallStartStop(t) ==
    /\ initialized
    /\ \E op \in StartStopOps : Start(t, op, NoLoc)

CallPrompt(t) ==
    /\ initialized
    /\ Start(t, "prompt_user", NoLoc)

CallPause(t) ==
    \E d \in Durations : Start(t, "pause_flow", [NoLoc EXCEPT !.dur = d])

\* The coroutines every caller goes through to reach the context and the page.
Context(t) ==
    \/ ensure_browser_context(t)
    \/ create_browser_context(t)
    \/ get_browser_context(t)
    \/ get_current_page(t)

\* ------------------------------------------------------- specifications
\* The manager as the first PlaywrightManager(browser_type, headless, gui_input_mode)
\* call leaves it.
Constructed(bt, headless, gui) ==
    /\ _instance = 1
    /\ initialized = TRUE
    /\ browser_type = bt
    /\ isheadless = headless
    /\ has_ui_manager = gui
    /\ user_response_event = [id |-> 1, value |-> FALSE]
    /\ user_response = Unset
    /\ _playwright = 0
    /\ _browser_context = 0
    /\ async_initialize_done = FALSE
    /\ pwStarted = 0
    /\ pwRunning = {}
    /\ ctxLaunched = 0
    /\ ctxLive = {}
    /\ pages = [c \in 1..(MaxContexts + 1) |-> <<>>]
    /\ pagesCreated = 0
    /\ running = 0
    /\ pc = [t \in Tasks |-> "idle"]
    /\ stack = [t \in Tasks |-> <<>>]
    /\ loc = [t \in Tasks |-> NoLoc]
    /\ hist = [NoHist EXCEPT !.constructs = 1, !.instances = 1, !.lastInstance = 1,
                             !.events = 1, !.lastConfig = <<bt, headless, gui>>]

Init == \E c \in Configs : Constructed(c[1], c[2], c[3])

\* The life cycle of a constructed manager under concurrent callers: start, stop,
\* the context and the current page.
Next ==
    \/ \E c \in 1..MaxContexts : BrowserClosed(c)
    \/ \E t \in Tasks :
          \/ CallLifecycle(t)
          \/ async_initialize(t)
          \/ start_playwright(t)
          \/ stop_playwright(t)
          \/ Context(t)

Spec == Init /\ [][Next]_vars

\* Starting and stopping under concurrent callers: every coroutine that assigns
\* _playwright or _browser_context on its own account.
NextStartStop ==
    \E t \in Tasks :
        \/ CallStartStop(t)
        \/ start_playwright(t)
        \/ stop_playwright(t)
        \/ ensure_browser_context(t)
        \/ create_browser_context(t)

SpecStartStop == Init /\ [][NextStartStop]_vars

\* Construction and the life cycle under one caller: a coroutine of the manager is
\* called only when the one called before has finished.
NextSeq ==
    \/ \E c \in Configs : Construct(c[1], c[2], c[3])
    \/ \E c \in 1..MaxContexts : BrowserClosed(c)
    \/ \E t \in Tasks :
          \/ (\A u \in Tasks : pc[u] = "idle") /\ CallLifecycle(t)
          \/ async_initialize(t)
          \/ start_playwright(t)
          \/ stop_playwright(t)
          \/ Context(t)

SpecSeq == InitClass /\ [][NextSeq]_vars

\* The manager as PlaywrightManager() followed by async_initialize() leaves it:
\* Playwright started, the context launched with its first page.
InitReady ==
    /\ _instance = 1
    /\ initialized = TRUE
    /\ browser_type = "chromium"
    /\ isheadless = FALSE
    /\ has_ui_manager = TRUE
    /\ user_response_event = [id |-> 1, value |-> FALSE]
    /\ user_response = Unset
    /\ _playwright = 1
    /\ _browser_context = 1
    /\ async_initialize_done = TRUE
    /\ pwStarted = 1
    /\ pwRunning = {1}
    /\ ctxLaunched = 1
    /\ ctxLive = {1}
    /\ pages = [c \in 1..(MaxContexts + 1) |-> IF c = 1 THEN <<1>> ELSE <<>>]
    /\ pagesCreated = 1
    /\ running = 0
    /\ pc = [t \in Tasks |-> "idle"]
    /\ stack = [t \in Tasks |-> <<>>]
    /\ loc = [t \in Tasks |-> NoLoc]
    /\ hist = [NoHist EXCEPT !.constructs = 1, !.instances = 1, !.lastInstance = 1,
                             !.events = 1, !.startOK = TRUE,
                             !.lastConfig = <<"chromium", FALSE, TRUE>>]

\* The tabs of a started manager: the user opens tabs and closes the browser.
NextTabs ==
    \/ \E c \in 1..MaxContexts : BrowserClosed(c) \/ NewTab(c)
    \/ \E t \in Tasks :
          \/ CallTabs(t)
          \/ close_all_tabs(t)
          \/ close_except_specified_tab(t)
          \/ Context(t)

SpecTabs == InitReady /\ [][NextTabs]_vars

\* The prompt and the response of the user of a started manager.
NextPrompt ==
    \/ \E r \in Responses : receive_user_response(r)
    \/ \E c \in 1..MaxContexts : BrowserClosed(c)
    \/ \E t \in Tasks :
          \/ CallPrompt(t)
          \/ prompt_user(t)
          \/ Context(t)

SpecPrompt == InitReady /\ [][NextPrompt]_vars

\* The handshake alone: prompts and responses while the browser stays open.
NextHandshake ==
    \/ \E r \in Responses : receive_user_response(r)
    \/ \E t \in Tasks :
          \/ CallPrompt(t)
          \/ prompt_user(t)
          \/ get_current_page_entry(t)
          \/ get_browser_context(t)
          \/ ensure_browser_context(t)
          \/ get_current_page_pages(t)

SpecHandshake == InitReady /\ [][NextHandshake]_vars

\* pause_flow, called with any duration.
NextPause == \E t \in Tasks : CallPause(t) \/ pause_flow(t)

SpecPause == InitClass /\ [][NextPause]_vars

\* ================================================================ claims
Finished(t) == pc[t] # "idle" /\ pc'[t] = "idle"

\* The state InitReady starts from is one the life cycle reaches.
Ready ==
    /\ _instance = 1 /\ initialized /\ browser_type = "chromium" /\ ~isheadless
    /\ has_ui_manager /\ user_response_event = [id |-> 1, value |-> FALSE]
    /\ user_response = Unset /\ _playwright = 1 /\ _browser_context = 1
    /\ async_initialize_done /\ pwRunning = {1} /\ ctxLive = {1}
    /\ pages[1] = <<1>> /\ pagesCreated = 1 /\ running = 0
    /\ \A t \in Tasks : pc[t] = "idle"
NotReady == ~Ready

\* C1: every constructor call yields the one instance, and a construction after
\* the first leaves browser_type, isheadless, user_response_event (and the rest of
\* the instance's state) as the first construction set them.
C1_Singleton ==
    [][hist'.constructs # hist.constructs =>
         /\ hist'.lastInstance = _instance'
         /\ hist.constructs > 0 =>
               /\ hist'.lastInstance = hist.lastInstance
               /\ UNCHANGED <<browser_type, isheadless, user_response_event,
                              initialized, has_ui_manager>>]_vars

\* a second construction with another browser_type and headless flag was made
C1_Witness ==
    /\ hist.constructs = 2
    /\ hist.lastConfig[1] # browser_type
    /\ hist.lastConfig[2] # isheadless

\* C2: Playwright is never started while one is started, and a context is never
\* launched while a live one exists: at most one of each at any time.
C2_OnlyOne == Cardinality(pwRunning) <= 1 /\ Cardinality(ctxLive) <= 1

\* C3: a prompt_user call returns only after a response was delivered after its
\* message was shown.
C3_WaitsForResponse ==
    \A t \in Tasks :
        loc[t].op = "prompt_user" /\ loc[t].status = "returned"
            => loc[t].doneAt > loc[t].shownAt

\* C4: a prompt_user call that returns returns a delivered response, never the
\* mailbox's empty reset value, and no delivery is returned twice.
C4_ReturnsResponse ==
    /\ \A t \in Tasks :
          loc[t].op = "prompt_user" /\ loc[t].status = "returned"
              => loc[t].str \in hist.delivered /\ loc[t].str # ""
    /\ ~hist.dupReturn

\* C5: with browser_type 'chromium' and no failing launch, a get_browser_context
\* call returns a context that is not None and is live.
C5_ReturnsLiveContext ==
    [][\A t \in Tasks :
         (/\ Finished(t)
          /\ loc'[t].op = "get_browser_context"
          /\ browser_type = "chromium"
          /\ loc'[t].exc \notin {"LaunchError", "ValueError"})
            => /\ loc'[t].status = "returned"
               /\ loc'[t].ret # 0
               /\ loc'[t].ret \in ctxLive']_vars

\* a get_browser_context call made after async_initialize and stop_playwright
C5_AfterStop ==
    [][\A t \in Tasks :
         (/\ Finished(t)
          /\ loc'[t].op = "get_browser_context"
          /\ browser_type = "chromium"
          /\ async_initialize_done
          /\ loc'[t].exc \notin {"LaunchError", "ValueError"})
            => loc'[t].status = "returned"]_vars

\* C6: when a stop_playwright call completes, _browser_context and _playwright are
\* None; Playwright's stop() is awaited only once the context it found is closed and
\* reset; a call that finds nothing started closes and stops nothing.
C6_StopResets ==
    [][\A t \in Tasks :
         /\ (Finished(t) /\ loc'[t].op = "stop_playwright")
               => /\ _browser_context' = 0
                  /\ _playwright' = 0
                  /\ loc'[t].status = "returned"
                  /\ (loc'[t].c0 = 0 /\ loc'[t].p0 = 0)
                        => /\ loc'[t].closes = 0 /\ loc'[t].stops = 0
                           /\ UNCHANGED <<ctxLive, pwRunning>>
         /\ (pc[t] = "st_check_pw" /\ pc'[t] = "st_stop")
               => /\ _browser_context = 0
                  /\ loc[t].c0 # 0 => loc[t].closes = 1 /\ loc[t].c0 \notin ctxLive
                  /\ loc[t].stops = 0]_vars

\* a stop_playwright call that closed a context and stopped Playwright has completed
C6_Witness ==
    \E t \in Tasks :
        /\ loc[t].op = "stop_playwright" /\ loc[t].status = "returned"
        /\ loc[t].c0 # 0 /\ loc[t].p0 # 0
        /\ loc[t].closes = 1 /\ loc[t].stops = 1
        /\ pwStarted > 0 /\ ctxLaunched > 0

\* C7: a start_playwright call made after one has completed, with no step of
\* stop_playwright since, starts no Playwright instance and leaves _playwright as
\* it is.
C7_Idempotent ==
    [][\A t \in Tasks :
         (At(t, "sp_check") /\ hist.startOK)
            => /\ _playwright # 0
               /\ pc'[t] # "sp_start"
               /\ UNCHANGED <<_playwright, pwStarted, pwRunning>>]_vars

\* a start_playwright call found the instance an earlier call started, and returned
C7_Witness ==
    \E t \in Tasks :
        /\ loc[t].op = "start_playwright" /\ loc[t].status = "returned"
        /\ loc[t].starts = 0
        /\ hist.startOK /\ pwStarted = 1 /\ _playwright = 1

\* C8: when close_all_tabs(keep_first_tab) completes, the tabs it closed are the
\* tabs the context had except the first (keep_first_tab True), or all of them
\* (False), and each of those is closed.
C8_CloseAllTabs ==
    \A t \in Tasks :
        loc[t].op = "close_all_tabs" /\ loc[t].status = "returned"
            => LET snap == loc[t].snap
                   others == {snap[i] : i \in DOMAIN snap \ {1}}
                   expected == IF loc[t].keepFirst THEN others ELSE Range(snap)
               IN /\ loc[t].closed = expected
                  /\ \A p \in expected : ~IsOpen(p)
                  /\ (loc[t].keepFirst /\ snap # <<>>) => snap[1] \notin loc[t].closed

\* close_all_tabs(True) ran on three tabs and left the first one open
C8_Witness ==
    \E t \in Tasks :
        /\ loc[t].op = "close_all_tabs" /\ loc[t].status = "returned"
        /\ loc[t].keepFirst
        /\ Len(loc[t].snap) = 3
        /\ IsOpen(loc[t].snap[1])
        /\ Cardinality(loc[t].closed) = 2

\* C9: when close_except_specified_tab(page_to_keep) completes, the tabs it closed
\* are the tabs the context had other than page_to_keep, each of those is closed,
\* and page_to_keep was not closed by the call.
C9_CloseExcept ==
    \A t \in Tasks :
        loc[t].op = "close_except_specified_tab" /\ loc[t].status = "returned"
            => LET expected == Range(loc[t].snap) \ {loc[t].keep}
               IN /\ loc[t].closed = expected
                  /\ \A p \in expected : ~IsOpen(p)
                  /\ loc[t].keep \notin loc[t].closed

\* the call kept a tab that is not the first of three and closed the other two
C9_Witness ==
    \E t \in Tasks :
        /\ loc[t].op = "close_except_specified_tab" /\ loc[t].status = "returned"
        /\ Len(loc[t].snap) = 3
        /\ loc[t].keep = loc[t].snap[2]
        /\ IsOpen(loc[t].keep)
        /\ Cardinality(loc[t].closed) = 2

\* what the caller handed over, read off the duration itself
IsNegative(d) ==
    \/ d.tag = "num" /\ d.val < 0
    \/ d.tag = "str" /\ d.text = "-1"
    \/ d.tag = "bigint" /\ d.val < 0
IsNumber(d) == d.tag \in {"num", "bigint"} \/ (d.tag = "str" /\ d.text \in {"2", "-1"})
FitsFloat(d) == d.tag = "num" \/ (d.tag = "str" /\ d.text \in {"2", "-1"})
Seconds(d) == IF d.tag = "num" THEN d.val ELSE IF d.text = "2" THEN 2 ELSE 0 - 1
Done(t) == loc[t].op = "pause_flow" /\ loc[t].status # "none"

\* C10 as stated: every negative duration raises ValueError('Duration cannot be
\* negative.'), every non-numeric one a ValueError, both without a sleep; a valid
\* non-negative duration is slept for before the message is returned.
C10_AsStated ==
    \A t \in Tasks :
        Done(t) =>
            LET d == loc[t].dur IN
            /\ IsNegative(d) => /\ loc[t].status = "raised" /\ loc[t].exc = "ValueError"
                                /\ loc[t].str = NegativeMessage /\ ~loc[t].slept
            /\ ~IsNumber(d) => /\ loc[t].status = "raised" /\ loc[t].exc = "ValueError"
                               /\ ~loc[t].slept
            /\ (IsNumber(d) /\ ~IsNegative(d) /\ loc[t].status = "returned")
                  => loc[t].slept /\ loc[t].sleptFor = Seconds(d)

\* C10, amended: a negative duration that float() converts raises
\* ValueError('Duration cannot be negative.'); a duration float() does not convert
\* (not a number, or an integer beyond a float's range, negative or not) raises a
\* ValueError; neither sleeps.  A non-negative duration float() converts is slept
\* for, and then the message is returned.
C10_PauseFlow ==
    \A t \in Tasks :
        Done(t) =>
            LET d == loc[t].dur IN
            /\ (IsNegative(d) /\ FitsFloat(d))
                  => /\ loc[t].status = "raised" /\ loc[t].exc = "ValueError"
                     /\ loc[t].str = NegativeMessage /\ ~loc[t].slept
            /\ ~FitsFloat(d) => /\ loc[t].status = "raised" /\ loc[t].exc = "ValueError"
                                /\ ~loc[t].slept
            /\ (FitsFloat(d) /\ ~IsNegative(d))
                  => /\ loc[t].status = "returned"
                     /\ loc[t].slept /\ loc[t].sleptFor = Seconds(d)
                     /\ loc[t].str = PauseMessage(Seconds(d))

\* one call slept and returned its message, another was refused a negative duration
C10_Witness ==
    \E t, u \in Tasks :
        /\ Done(t) /\ loc[t].status = "returned" /\ loc[t].slept
        /\ loc[t].dur = Num(1) /\ loc[t].str = "Paused for 1.0 second."
        /\ Done(u) /\ loc[u].status = "raised" /\ loc[u].dur = Num(0 - 2)
        /\ loc[u].str = NegativeMessage

\* C11: create_browser_context executes the second launch statement, with the
\* directory mkdtemp has just created (not the configured one), exactly when its
\* first launch failed with the 'has been closed' message; 'chrome is not found'
\* ends the call with ValueError and any other error is re-raised, each after one
\* launch; there are never more than two launches, and a failure of the second
\* one ends the call.
InCbc(l) == l \in {"cbc_entry", "cbc_launch1", "cbc_launch2"}

C11_RetryOnce ==
    [][\A t \in Tasks :
         LET b == loc[t].cbc
             c == loc'[t].cbc
         IN /\ c.tries <= 2
            /\ Len(c.dirs) <= c.tries
            /\ (c.tries = 2) <=> (c.first = "closed")
            /\ (b.tries < 2 /\ c.tries = 2)
                 => /\ pc[t] = "cbc_launch1"
                    /\ c.tmp # UserDir
                    /\ c.tmp > hist.tmpdirs
                    /\ c.tmp = hist'.tmpdirs
                    /\ \A u \in Tasks : c.tmp \notin {loc[u].cbc.tmp} \cup Range(loc[u].cbc.dirs)
                    /\ \/ c.dirs = <<UserDir, c.tmp>> /\ pc'[t] = "cbc_launch2"
                       \/ c.dirs = <<UserDir>> /\ c.end = "AttributeError"
            /\ c.tries < 2 => c.tmp = 0
            /\ hist'.tmpdirs # hist.tmpdirs
                 => \E u \in Tasks : loc[u].cbc.tries < 2 /\ loc'[u].cbc.tries = 2
            /\ c.first = "ok" => c.end = "returned"
            /\ c.first = "notfound" => c.end = "ValueError"
            /\ c.first = "other" => c.end = "LaunchError"
            /\ c.first = "noplaywright" => c.end = "AttributeError"
            /\ c.first = "closed" => c.end \in {"", "returned", "LaunchError", "AttributeError"}
            /\ (c.first = "closed" /\ c.end = "") <=> pc'[t] = "cbc_launch2"
            /\ (b.end = "" /\ c.end # "" /\ InCbc(pc[t]))
                 => /\ ~InCbc(pc'[t])
                    /\ c.end # "returned" => loc'[t].exc = c.end
                    /\ (c.end = "returned") <=> (_browser_context' \in ctxLive' \ ctxLive)]_vars

\* one call was retried with a fresh directory and returned, another was ended by an
\* error that is not retried
C11_Witness ==
    \E t, u \in Tasks :
        /\ loc[t].cbc.first = "closed" /\ loc[t].cbc.tries = 2
        /\ loc[t].cbc.end = "returned"
        /\ loc[t].cbc.dirs = <<UserDir, loc[t].cbc.tmp>>
        /\ loc[u].cbc.first = "other" /\ loc[u].cbc.tries = 1
        /\ loc[u].cbc.end = "LaunchError" /\ loc[u].status = "raised"

\* C12: a get_current_page call that returns gives a page that is not closed and is
\* the last one in the page order of its context; when the context it was given has
\* a page that is not closed, it returns the last of them and opens none; new_page
\* is called only when that context has no page that is not closed.
C12_CurrentPage ==
    [][\A t \in Tasks :
         /\ (Finished(t) /\ loc'[t].op = "get_current_page" /\ loc'[t].status = "returned")
              => /\ IsOpen(loc[t].ret)'
                 /\ \E c \in DOMAIN pages :
                       /\ pages'[c] # <<>>
                       /\ loc'[t].ret = pages'[c][Len(pages'[c])]
         /\ (running = t /\ pc[t] = "gcp_try" /\ pages[loc[t].ret] # <<>>)
              => /\ pc'[t] # "gcp_new_page"
                 /\ pages' = pages
                 /\ pagesCreated' = pagesCreated
                 /\ loc'[t].ret = pages[loc[t].ret][Len(pages[loc[t].ret])]
         /\ (pc[t] # "gcp_new_page" /\ pc'[t] = "gcp_new_page")
              => /\ pc[t] = "gcp_try"
                 /\ pages[loc'[t].ctx] = <<>>
         /\ (pc[t] = "gcp_new_page" /\ pc'[t] # pc[t] /\ pagesCreated' # pagesCreated)
              => /\ pagesCreated' = pagesCreated + 1
                 /\ loc'[t].ret = pagesCreated'
                 /\ pages'[loc[t].ctx] = Append(pages[loc[t].ctx], pagesCreated')]_vars

\* a call has returned the last of several open tabs, none of them opened by it
C12_Witness ==
    \E t \in Tasks : \E c \in ctxLive :
        /\ loc[t].op = "get_current_page" /\ loc[t].status = "returned"
        /\ Len(pages[c]) >= 2
        /\ loc[t].ret = pages[c][Len(pages[c])]
        /\ pagesCreated = Len(pages[c])

\* C13: whenever user_response_event is set, user_response is the string the most
\* recent receive_user_response call was given; the event is set by that call only;
\* a prompt_user call that is about to read user_response finds it assigned; and in
\* the step a prompt_user call returns, the event is clear and user_response is "".
MailboxHoldsLast ==
    /\ user_response_event.value
         => /\ user_response = hist.lastResponse
            /\ user_response # Unset
            /\ hist.responses > 0
    /\ (\E t \in Tasks : pc[t] = "pu_woken") => user_response # Unset

C13_Handshake ==
    /\ []MailboxHoldsLast
    /\ [][/\ (~user_response_event.value /\ user_response_event'.value)
               => hist'.responses = hist.responses + 1
          /\ \A t \in Tasks :
               /\ (Finished(t) /\ loc[t].op = "prompt_user" /\ loc'[t].status = "returned")
                    => /\ ~user_response_event'.value
                       /\ user_response' = ""
               /\ (loc[t].op = "prompt_user" /\ pc[t] \in {"pu_evaluate", "pu_woken"}
                     /\ loc'[t].status = "raised")
                    => loc'[t].exc # "AttributeError"]_vars

\* a prompt has returned and a later response sits in the mailbox with the event set
C13_Witness ==
    /\ user_response_event.value
    /\ user_response = hist.lastResponse
    /\ hist.responses = 2
    /\ \E t \in Tasks :
          /\ loc[t].op = "prompt_user" /\ loc[t].status = "returned"
          /\ loc[t].str # "" /\ loc[t].str # user_response

====
